---- MODULE Spec2Model ----
(***************************************************************************)
(* Slicing, grouping, per-process distribution and padding logic of        *)
(* Hdf5TransportData (savu/data/transport_data/hdf5_transport_data.py).    *)
(*                                                                         *)
(* A python slice object is the record [start, stop, step]; a window       *)
(* (slice tuple) is a function from the axes to slices.  A data block is   *)
(* represented by, for every axis, the sequence of dataset positions its   *)
(* entries along that axis were read from (edge replication repeats the    *)
(* first or last of them): slicing and numpy.pad act on every axis         *)
(* independently, so two blocks hold the same data for every dataset iff   *)
(* these sequences agree.                                                  *)
(*                                                                         *)
(* The source is python 2 (xrange, integer '/'), so chunk/2 is floor       *)
(* division.  Datasets here have the two axes 0 and 1 and no 'var' axis.   *)
(***************************************************************************)
EXTENDS Integers, Sequences, FiniteSets, TLC

Axes == 0 .. 1

\* bounds of the enumerated previews
MaxStart == 1
MaxStop == 3
MaxStep == 2
MaxChunk == 3
MaxFrames == 3
MaxProcs == 3
MaxFixVal == 1
MaxPad == 3
Extent == 4

VARIABLES
    pattern,      \* pData: core_dirs, slice_dirs, fix_dirs and their values
    preview,      \* get_preview().get_starts_stops_steps()
    max_frames,   \* pData._get_frame_chunk()
    processes,    \* len(expInfo.get("processes"))
    proc_out,     \* what each rank's _get_slice_list_per_process returned
    pData,        \* pData.padding, pData.pad_dict, pData.end_pad, fixed_dims
    orig_shape,   \* extent of the stored data on every axis
    ret           \* the last call of the transport object and its result

vars == <<pattern, preview, max_frames, processes, proc_out, pData,
          orig_shape, ret>>

----------------------------------------------------------------------------
\* python helpers

Slice(a, b, c) == [start |-> a, stop |-> b, step |-> c]

\* slice(None): never survives in a window of a pattern that covers all axes
SliceNone == [start |-> -1, stop |-> -1, step |-> -1]

Max(a, b) == IF a > b THEN a ELSE b
Min(a, b) == IF a < b THEN a ELSE b

\* len(range(start, stop, step)), step >= 1
RangeLen(a, b, c) == IF b > a THEN (b - a + c - 1) \div c ELSE 0

\* np.arange(start, stop, step) / range(start, stop, step)
Range(a, b, c) == [k \in 1 .. RangeLen(a, b, c) |-> a + (k - 1) * c]

SeqToSet(s) == {s[i] : i \in 1 .. Len(s)}

IndexOf(s, x) == CHOOSE i \in 1 .. Len(s) : s[i] = x

RECURSIVE Prod(_)
Prod(s) == IF Len(s) = 0 THEN 1 ELSE Head(s) * Prod(Tail(s))

RECURSIVE Flatten(_)
Flatten(ss) == IF Len(ss) = 0 THEN <<>> ELSE Head(ss) \o Flatten(Tail(ss))

Ok(v) == [err |-> "none", val |-> v]
Raise(e) == [err |-> e, val |-> <<>>]

----------------------------------------------------------------------------
\* index generation

\* get_shape(): the previewed shape, chunk * number of step points per axis
GetShape(pv) ==
    [d \in Axes |->
        RangeLen(pv.starts[d], pv.stops[d], pv.steps[d]) * pv.chunks[d]]

GetShapeOfSliceDirs(slice_dirs, shape) ==
    [i \in 1 .. Len(slice_dirs) |-> shape[slice_dirs[i]]]

ChunkLengthRepeat(slice_dirs, shape) ==
    LET sshape == GetShapeOfSliceDirs(slice_dirs, shape)
        n == Len(slice_dirs)
    IN  IF n = 0
        THEN [chunk |-> <<1>>, length |-> <<1>>, repeat |-> <<1>>]
        ELSE [chunk  |-> [i \in 1 .. n |-> Prod(SubSeq(sshape, 1, i - 1))],
              length |-> [i \in 1 .. n |-> sshape[i]],
              repeat |-> [i \in 1 .. n |-> Prod(SubSeq(sshape, i + 1, n))]]

\* offset of row c of the centred window: (np.arange(chunk) - chunk/2)[c]
SliceOffsetCeil(c, chunk) == c - (chunk + 1) \div 2
SliceOffset(c, chunk) == c - chunk \div 2

\* _get_slice_dir_matrix: chunk rows, one column per step point
GetSliceDirMatrix(pv, dim) ==
    LET chunk == pv.chunks[dim]
        a == Range(pv.starts[dim], pv.stops[dim], pv.steps[dim])
        dim_idx == [c \in 0 .. chunk - 1 |->
                      [k \in 1 .. Len(a) |-> a[k] + SliceOffset(c, chunk)]]
    IN  IF \E c \in 0 .. chunk - 1 : \E k \in 1 .. Len(a) : dim_idx[c][k] < 0
        THEN Raise("NegativeSlice")
        ELSE Ok(dim_idx)

\* __get_slice_dir_index(dim), boolean=False
GetSliceDirIndex(pt, pv, dim) ==
    IF pv.chunks[dim] > 1
    THEN LET m == GetSliceDirMatrix(pv, dim)
             chunk == pv.chunks[dim]
             n == RangeLen(pv.starts[dim], pv.stops[dim], pv.steps[dim])
         IN  IF m.err # "none" THEN m
             ELSE Ok([j \in 1 .. n * chunk |->
                        m.val[(j - 1) % chunk][((j - 1) \div chunk) + 1]])
    ELSE IF dim \in SeqToSet(pt.fix_dirs)
         THEN Ok(<<pt.fix_vals[IndexOf(pt.fix_dirs, dim)]>>)
         ELSE Ok(Range(pv.starts[dim], pv.stops[dim], pv.steps[dim]))

\* np.ravel(np.kron(values, np.ones((r, c)))): r rows, each holding every
\* value c times in a row
KronRowMajor(values, r, c) ==
    LET L == Len(values)
    IN  [j \in 1 .. r * L * c |-> values[(((j - 1) \div r) % L) + 1]]
Kron(values, r, c) ==
    LET L == Len(values)
    IN  [j \in 1 .. r * L * c |-> values[(((j - 1) % (L * c)) \div c) + 1]]

\* __get_slice_dirs_index
GetSliceDirsIndex(pt, pv) ==
    LET sd == pt.slice_dirs
        clr == ChunkLengthRepeat(sd, GetShape(pv))
        vals == [i \in 1 .. Len(sd) |-> GetSliceDirIndex(pt, pv, sd[i])]
    IN  IF \E i \in 1 .. Len(sd) : vals[i].err # "none"
        THEN Raise("NegativeSlice")
        ELSE Ok([i \in 1 .. Len(sd) |->
                    Kron(vals[i].val, clr.repeat[i], clr.chunk[i])])

\* __get_core_slices, one entry per core direction
CoreSlice(pv, c) ==
    IF pv.chunks[c] > 1
    THEN IF pv.stops[c] - pv.starts[c] = 1
         THEN IF pv.starts[c] - pv.chunks[c] \div 2 < 0
              THEN Raise("NegativeSlice")
              ELSE Ok(Slice(pv.starts[c] - pv.chunks[c] \div 2,
                            pv.starts[c] + (pv.chunks[c] - pv.chunks[c] \div 2),
                            1))
         ELSE Raise("CoreMultipleChunks")
    ELSE Ok(Slice(pv.starts[c], pv.stops[c], pv.steps[c]))

GetCoreSlices(pt, pv) ==
    LET cs == [i \in 1 .. Len(pt.core_dirs) |-> CoreSlice(pv, pt.core_dirs[i])]
    IN  IF \E i \in 1 .. Len(cs) : cs[i].err # "none"
        THEN Raise((cs[CHOOSE i \in 1 .. Len(cs) :
                        /\ cs[i].err # "none"
                        /\ \A j \in 1 .. i - 1 : cs[j].err = "none"]).err)
        ELSE Ok([i \in 1 .. Len(cs) |-> cs[i].val])

\* number of windows: index.shape[1] if index.size else len(fix_dirs)
NSlices(index, fix_dirs) ==
    IF Len(index) > 0 /\ Len(index[1]) > 0
    THEN Len(index[1])
    ELSE Len(fix_dirs)

\* _single_slice_list
SingleSliceList(pt, pv) ==
    LET idx == GetSliceDirsIndex(pt, pv)
        core == GetCoreSlices(pt, pv)
    IN  IF idx.err # "none" THEN idx
        ELSE IF core.err # "none" THEN core
        ELSE
          LET index == idx.val
              nSlices == NSlices(index, pt.fix_dirs)
              getitem(i) ==
                [d \in Axes |->
                    IF d \in SeqToSet(pt.slice_dirs)
                    THEN LET v == index[IndexOf(pt.slice_dirs, d)][i]
                         IN  Slice(v, v + 1, 1)
                    ELSE IF d \in SeqToSet(pt.fix_dirs)
                    THEN LET v == pt.fix_vals[IndexOf(pt.fix_dirs, d)]
                         IN  Slice(v, v + 1, 1)
                    ELSE IF d \in SeqToSet(pt.core_dirs)
                    THEN core.val[IndexOf(pt.core_dirs, d)]
                    ELSE SliceNone]
          IN  IF nSlices > 0 /\ Len(index) > 0 /\ Len(index[1]) = 0
              THEN Raise("IndexError")
              ELSE Ok([i \in 1 .. nSlices |-> getitem(i)])

----------------------------------------------------------------------------
\* grouping into batches

\* __split_list: xrange(0, len, size) raises ValueError for size 0
SplitList(the_list, size) ==
    IF size = 0 THEN Raise("ValueError")
    ELSE Ok([x \in 1 .. (Len(the_list) + size - 1) \div size |->
                SubSeq(the_list, (x - 1) * size + 1,
                       Min(x * size, Len(the_list)))])

\* __banked_list
BankedList(pt, pv, slice_list) ==
    SplitList(slice_list,
              ChunkLengthRepeat(pt.slice_dirs, GetShape(pv)).length[1])

\* the batch emitted for one sub group
MergeSub(sub, group_dim, step) ==
    [sub[1] EXCEPT ![group_dim] =
        Slice(sub[1][group_dim].start, sub[Len(sub)][group_dim].stop, step)]

\* __grouped_slice_list; subs records the windows merged into each batch
GroupedSliceList(pt, pv, slice_list, frames) ==
    LET banked == BankedList(pt, pv, slice_list)
    IN  IF banked.err # "none" THEN banked
        ELSE IF Len(pt.slice_dirs) = 0 THEN Raise("IndexError")
        ELSE
          LET group_dim == pt.slice_dirs[1]
              subs == Flatten([g \in 1 .. Len(banked.val) |->
                                  SplitList(banked.val[g], frames).val])
          IN  [err |-> "none",
               val |-> [k \in 1 .. Len(subs) |->
                           MergeSub(subs[k], group_dim, pv.steps[group_dim])],
               subs |-> subs]

\* _get_grouped_slice_list
GetGroupedSliceList(pt, pv, frames) ==
    LET sl == SingleSliceList(pt, pv)
    IN  IF sl.err # "none" THEN sl
        ELSE GroupedSliceList(pt, pv, sl.val, frames)

----------------------------------------------------------------------------
\* distribution over the processes

\* np.array_split(np.arange(B), P)[process]
ArraySplit(B, P, process) ==
    LET each == B \div P
        extras == B % P
        first == process * each + Min(process, extras)
        size == each + (IF process < extras THEN 1 ELSE 0)
    IN  [k \in 1 .. size |-> first + k - 1]

\* slice_list[frames[0]:frames[-1]+1], [] on the IndexError of empty frames
ProcessSliceListShort(slice_list, frames) ==
    IF Len(frames) = 0 THEN <<>>
    ELSE SubSeq(slice_list, frames[1] + 1, Min(frames[Len(frames)], Len(slice_list)))
ProcessSliceList(slice_list, frames) ==
    IF Len(frames) = 0 THEN <<>>
    ELSE SubSeq(slice_list, frames[1] + 1,
                Min(frames[Len(frames)] + 1, Len(slice_list)))

----------------------------------------------------------------------------
\* the padding held by the plugin data
\*   [kind |-> "None"]                       no padding
\*   [kind |-> "dict", entries |-> seq]      the dictionary set by a plugin
\*   [kind |-> "Padding", dirs |-> f]        a Padding object

NoPadding == [kind |-> "None"]

\* truth value of pData.padding / pData.pad_dict
Truthy(p) == p.kind = "Padding" \/ (p.kind = "dict" /\ Len(p.entries) > 0)

\* Padding(pattern): no pad on any axis
NewPadding == [kind |-> "Padding",
               dirs |-> [d \in Axes |-> [before |-> 0, after |-> 0]]]

\* Padding._pad_direction('dir.place.amount'); 'dir.amount' pads both sides
PadDirection(p, dir, place, amount) ==
    [p EXCEPT !.dirs[dir] =
        [before |-> IF place \in {"before", "both"} THEN @.before + amount
                    ELSE @.before,
         after  |-> IF place \in {"after", "both"} THEN @.after + amount
                    ELSE @.after]]

RECURSIVE ApplyEntries(_, _)
ApplyEntries(p, entries) ==
    IF Len(entries) = 0 THEN p
    ELSE ApplyEntries(PadDirection(p, Head(entries).dir, Head(entries).place,
                                   Head(entries).amount),
                      Tail(entries))

\* Padding._get_padding_directions: the axes with a pad
GetPaddingDirections(p) ==
    {d \in Axes : p.dirs[d].before + p.dirs[d].after # 0}

\* __set_padding_dict
SetPaddingDict(pd) ==
    IF Truthy(pd.padding) /\ pd.padding.kind # "Padding"
    THEN [pd EXCEPT !.pad_dict = pd.padding,
                    !.padding = ApplyEntries(NewPadding, pd.padding.entries)]
    ELSE pd

\* _get_slice_list_per_process
GetSliceListPerProcess(pt, pv, frames_max, P, process) ==
    LET g == GetGroupedSliceList(pt, pv, frames_max)
    IN  IF g.err # "none" THEN [err |-> g.err, val |-> <<>>, frames |-> <<>>]
        ELSE LET frames == ArraySplit(Len(g.val), P, process)
             IN  [err |-> "none",
                  val |-> ProcessSliceList(g.val, frames),
                  frames |-> frames]

----------------------------------------------------------------------------
\* enumerated inputs

Unset == [err |-> "unset"]
NoCall == [op |-> "none", err |-> "none"]

\* preview of the first slice axis
PrimaryPreviews ==
    {[start |-> a, stop |-> b, step |-> c, chunk |-> k] :
        a \in 0 .. MaxStart, b \in 0 .. MaxStop, c \in 1 .. MaxStep,
        k \in 1 .. MaxChunk}

\* preview of a further slice axis
SecondaryPreviews ==
    {q \in PrimaryPreviews : q.chunk = 1}

\* preview of a core axis
CorePreviews ==
    {q \in PrimaryPreviews : q.step = 1 /\ q.chunk <= 2 /\ q.stop = q.start + 1}
    \cup {q \in PrimaryPreviews : q.step = 1 /\ q.chunk = 1 /\ q.stop = MaxStop}

\* preview of a pinned axis: never read for an axis that is not a slice axis
FixedPreviews == {[start |-> 0, stop |-> 1, step |-> 1, chunk |-> 1]}

Roles == {"core", "primary", "secondary", "fixed"}

RolePreviews(role) ==
    CASE role = "core" -> CorePreviews
      [] role = "primary" -> PrimaryPreviews
      [] role = "secondary" -> SecondaryPreviews
      [] role = "fixed" -> FixedPreviews

\* an ascending sequence of the elements of a set of axes
RECURSIVE SortedSeq(_)
SortedSeq(S) ==
    IF S = {} THEN <<>>
    ELSE LET m == CHOOSE x \in S : \A y \in S : x <= y
         IN  <<m>> \o SortedSeq(S \ {m})

\* role assignments with at most one primary axis, which exists when a
\* secondary one does
RoleMaps ==
    {r \in [Axes -> Roles] :
        /\ Cardinality({d \in Axes : r[d] = "primary"}) <= 1
        /\ (\E d \in Axes : r[d] = "secondary")
              => (\E d \in Axes : r[d] = "primary")}

PatternOf(r, fv) ==
    LET fixed == SortedSeq({d \in Axes : r[d] = "fixed"})
    IN  [core_dirs  |-> SortedSeq({d \in Axes : r[d] = "core"}),
         slice_dirs |-> SortedSeq({d \in Axes : r[d] = "primary"})
                            \o SortedSeq({d \in Axes : r[d] = "secondary"}),
         fix_dirs   |-> fixed,
         fix_vals   |-> [i \in 1 .. Len(fixed) |-> fv[fixed[i]]]]

PreviewOf(q) ==
    [starts |-> [d \in Axes |-> q[d].start],
     stops  |-> [d \in Axes |-> q[d].stop],
     steps  |-> [d \in Axes |-> q[d].step],
     chunks |-> [d \in Axes |-> q[d].chunk]]

NoPData == [padding |-> NoPadding, pad_dict |-> NoPadding,
            end_pad |-> FALSE, fixed_dims |-> FALSE]

----------------------------------------------------------------------------
\* the slice lists of one dataset

InitSlices ==
    /\ \E r \in RoleMaps :
         /\ \E fv \in [Axes -> 0 .. MaxFixVal] :
              /\ \A d \in Axes : r[d] # "fixed" => fv[d] = 0
              /\ pattern = PatternOf(r, fv)
         /\ \E q \in [Axes -> PrimaryPreviews \cup FixedPreviews] :
              /\ \A d \in Axes : q[d] \in RolePreviews(r[d])
              /\ \A d \in Axes : q[d].start <= q[d].stop
              /\ preview = PreviewOf(q)
    /\ max_frames \in 1 .. MaxFrames
    /\ processes = 1
    /\ proc_out = [p \in 0 .. processes - 1 |-> Unset]
    /\ pData = NoPData
    /\ orig_shape = [d \in Axes |-> Extent]
    /\ ret = NoCall

CallSliceDirMatrix(dim) ==
    /\ ret' = [op |-> "matrix", dim |-> dim] @@ GetSliceDirMatrix(preview, dim)
    /\ UNCHANGED <<pattern, preview, max_frames, processes, proc_out, pData,
                   orig_shape>>

CallSingleSliceList ==
    /\ ret' = [op |-> "single"] @@ SingleSliceList(pattern, preview)
    /\ UNCHANGED <<pattern, preview, max_frames, processes, proc_out, pData,
                   orig_shape>>

CallGetGroupedSliceList ==
    /\ ret' = [op |-> "grouped"]
                @@ GetGroupedSliceList(pattern, preview, max_frames)
    /\ UNCHANGED <<pattern, preview, max_frames, processes, proc_out, pData,
                   orig_shape>>

\* rank `process` asks for its share
CallGetSliceListPerProcess(process) ==
    /\ pData' = SetPaddingDict(pData)
    /\ ret' = [op |-> "per_process", process |-> process]
                @@ GetSliceListPerProcess(pattern, preview, max_frames,
                                          processes, process)
    /\ proc_out' = [proc_out EXCEPT ![process] =
                       [err |-> ret'.err, val |-> ret'.val,
                        frames |-> ret'.frames]]
    /\ UNCHANGED <<pattern, preview, max_frames, processes, orig_shape>>

NextSlices ==
    \/ \E dim \in Axes : CallSliceDirMatrix(dim)
    \/ CallSingleSliceList
    \/ CallGetGroupedSliceList

SpecSlices == InitSlices /\ [][NextSlices]_vars

----------------------------------------------------------------------------
\* the ranks of one run, each computing its own share

\* previews of a run: unchunked axes, any step on the first slice axis, step
\* 1 on a further slice axis, the core axis taken in full
DistPreviews(role) ==
    CASE role = "primary" -> {q \in PrimaryPreviews : q.chunk = 1}
      [] role = "secondary" -> {q \in SecondaryPreviews : q.step = 1}
      [] role = "core" ->
            {[start |-> 0, stop |-> MaxStop, step |-> 1, chunk |-> 1]}
      [] role = "fixed" -> FixedPreviews

InitDist ==
    /\ \E r \in RoleMaps :
         /\ \E d \in Axes : r[d] = "primary"
         /\ \A d \in Axes : r[d] # "fixed"
         /\ pattern = PatternOf(r, [d \in Axes |-> 0])
         /\ \E q \in [Axes -> PrimaryPreviews] :
              /\ \A d \in Axes : q[d] \in DistPreviews(r[d])
              /\ \A d \in Axes : q[d].start <= q[d].stop
              /\ preview = PreviewOf(q)
    /\ max_frames \in 1 .. MaxFrames
    /\ processes \in 1 .. MaxProcs
    /\ proc_out = [p \in 0 .. processes - 1 |-> Unset]
    /\ pData = NoPData
    /\ orig_shape = [d \in Axes |-> Extent]
    /\ ret = NoCall

NextDist ==
    \E process \in 0 .. processes - 1 : CallGetSliceListPerProcess(process)

SpecDist == InitDist /\ [][NextDist]_vars

----------------------------------------------------------------------------
\* padded reads and their inverse crop

\* self.data[sl] along one axis of extent n, for 0 <= start, 0 <= stop
PyRead(sl, n) == Range(Min(sl.start, n), Min(sl.stop, n), sl.step)

\* __calculate_slice_padding for a slice with concrete start and stop
CalculateSlicePaddingReduced(in_slice, pad, data_stop) ==
    LET minval == in_slice.start - pad.before
        maxval == in_slice.stop + pad.after
    IN  [out_slice |-> Slice(Max(minval, 0), Min(maxval, data_stop),
                             in_slice.step),
         pad |-> <<pad.before - Max(0 - minval, 0),
                   pad.after - Max(maxval - data_stop, 0)>>]
CalculateSlicePadding(in_slice, pad, data_stop) ==
    LET minval == in_slice.start - pad.before
        maxval == in_slice.stop + pad.after
    IN  [out_slice |-> Slice(IF minval < 0 THEN 0 ELSE minval,
                             IF maxval > data_stop THEN data_stop ELSE maxval,
                             in_slice.step),
         pad |-> <<IF minval < 0 THEN 0 - minval ELSE 0,
                   IF maxval > data_stop THEN maxval - data_stop ELSE 0>>]

\* np.pad(..., mode='edge') along one axis
EdgePad(r, pad) ==
    [k \in 1 .. pad[1] |-> r[1]] \o r \o [k \in 1 .. pad[2] |-> r[Len(r)]]

\* __get_pad_data.  Edge padding an axis that holds nothing raises ValueError
\* in numpy >= 1.17 and returns nothing in older releases: padEmptyRaises.
GetPadData(slice_tup, pad_tup, shape, padEmptyRaises) ==
    LET data_slice == [d \in Axes |-> PyRead(slice_tup[d], shape[d])]
        empty(d) == Len(data_slice[d]) = 0 /\ pad_tup[d][1] + pad_tup[d][2] > 0
    IN  IF padEmptyRaises /\ \E d \in Axes : empty(d)
        THEN Raise("ValueError")
        ELSE Ok([d \in Axes |-> IF empty(d) THEN <<>>
                                ELSE EdgePad(data_slice[d], pad_tup[d])])

\* correct_pad
CorrectPadKeep(pd) == [pd EXCEPT !.end_pad = FALSE]
CorrectPad(pd) ==
    IF Truthy(pd.pad_dict)
    THEN [SetPaddingDict([pd EXCEPT !.padding = pd.pad_dict])
            EXCEPT !.end_pad = FALSE]
    ELSE [pd EXCEPT !.padding = NoPadding, !.end_pad = FALSE]

\* __matching_dims
MatchingDims(pd, pt, frames_max, slice_list) ==
    LET slice_dir == pt.slice_dirs[1]
        sl == slice_list[slice_dir]
        diff == frames_max - RangeLen(sl.start, sl.stop, sl.step)
        pd1 == [pd EXCEPT !.end_pad = TRUE]
        p == IF Truthy(pd.padding) THEN pd.padding ELSE NewPadding
    IN  IF diff = 0 THEN [err |-> "none", pd |-> pd1, diff |-> diff]
        ELSE IF p.kind = "dict"
        THEN [err |-> "AttributeError", pd |-> pd1, diff |-> diff]
        ELSE [err |-> "none", diff |-> diff,
              pd |-> [pd1 EXCEPT !.padding =
                                    PadDirection(p, slice_dir, "after", diff)]]

NoPads == [d \in Axes |-> <<0, 0>>]

\* _get_padded_slice_data: the plugin data it leaves and what it returns
GetPaddedSliceData(pd, pt, frames_max, shape, input_slice_list, padEmptyRaises) ==
    LET md == IF pd.fixed_dims
              THEN MatchingDims(pd, pt, frames_max, input_slice_list)
              ELSE [err |-> "none", pd |-> pd, diff |-> 0]
        info == [window |-> input_slice_list, diff |-> md.diff]
    IN  IF md.err # "none"
        THEN [pd |-> md.pd, res |-> info @@ Raise(md.err)]
        ELSE IF ~Truthy(md.pd.padding)
        THEN [pd |-> md.pd,
              res |-> info @@ [slices |-> input_slice_list, pads |-> NoPads]
                        @@ Ok([d \in Axes |->
                                 PyRead(input_slice_list[d], shape[d])])]
        ELSE IF md.pd.padding.kind = "dict"
        THEN [pd |-> md.pd, res |-> info @@ Raise("AttributeError")]
        ELSE
          LET padding_dict == md.pd.padding.dirs
              keys == GetPaddingDirections(md.pd.padding)
              calc == [d \in Axes |->
                         IF d \in keys
                         THEN CalculateSlicePadding(input_slice_list[d],
                                                    padding_dict[d], shape[d])
                         ELSE [out_slice |-> input_slice_list[d],
                               pad |-> <<0, 0>>]]
              slice_list == [d \in Axes |-> calc[d].out_slice]
              pad_list == [d \in Axes |-> calc[d].pad]
          IN  [pd |-> IF md.pd.end_pad THEN CorrectPad(md.pd) ELSE md.pd,
               res |-> info @@ [slices |-> slice_list, pads |-> pad_list,
                                keys |-> keys, used |-> padding_dict]
                         @@ GetPadData(slice_list, pad_list, shape,
                                       padEmptyRaises)]

\* padded_data[before:end] along one axis, end = len if after is 0 else -after
PyCrop(r, before, after) ==
    LET n == Len(r)
        end == IF after = 0 THEN n
               ELSE IF after > 0 THEN Max(n - after, 0) ELSE Min(0 - after, n)
    IN  SubSeq(r, Min(before, n) + 1, end)

\* _get_unpadded_slice_data
GetUnpaddedSliceData(pd, pt, frames_max, input_slice_list, padded_data) ==
    LET md == IF pd.fixed_dims
              THEN MatchingDims(pd, pt, frames_max, input_slice_list)
              ELSE [err |-> "none", pd |-> pd, diff |-> 0]
        info == [window |-> input_slice_list, diff |-> md.diff]
    IN  IF md.err # "none"
        THEN [pd |-> md.pd, res |-> info @@ Raise(md.err)]
        ELSE IF ~Truthy(md.pd.padding)
        THEN [pd |-> md.pd, res |-> info @@ Ok(padded_data)]
        ELSE IF md.pd.padding.kind = "dict"
        THEN [pd |-> md.pd, res |-> info @@ Raise("AttributeError")]
        ELSE
          LET padding_dict == md.pd.padding.dirs
              keys == GetPaddingDirections(md.pd.padding)
          IN  [pd |-> IF md.pd.end_pad THEN CorrectPad(md.pd) ELSE md.pd,
               res |-> info @@
                   Ok([d \in Axes |->
                         IF d \in keys
                         THEN PyCrop(padded_data[d], padding_dict[d].before,
                                     padding_dict[d].after)
                         ELSE padded_data[d]])]

----------------------------------------------------------------------------
\* padded reads of one dataset

\* what a plugin may set pData.padding to
PadConfigs ==
    {NoPadding, [kind |-> "dict", entries |-> <<>>]}
    \cup {[kind |-> "dict",
           entries |-> <<[dir |-> d, place |-> pl, amount |-> n]>>] :
             d \in Axes, pl \in {"before", "after", "both"}, n \in 1 .. MaxPad}

\* selectors of a batch on one axis, also beyond the stored extent
Selectors ==
    {Slice(a, b, c) : a \in 0 .. Extent + 1, b \in 0 .. Extent + 1,
                      c \in 1 .. MaxStep}

\* the windows handed to the padded read: one axis takes any selector, the
\* others the full extent; a batch never has more than max_frames positions
\* on the first slice axis
Windows ==
    {w \in [Axes -> Selectors] :
        /\ \A d \in Axes : w[d].start <= w[d].stop
        /\ \E a \in Axes : \A d \in Axes \ {a} : w[d] = Slice(0, Extent, 1)}

\* the batches a later read of the same run is enumerated over: the first
\* and the last position of the first slice axis, full extent elsewhere
NextWindows ==
    {w \in Windows :
        /\ \A d \in Axes : w[d].step = 1
        /\ \E a \in Axes :
              /\ w[a] \in {Slice(0, 1, 1), Slice(Extent - 1, Extent, 1)}
              /\ \A d \in Axes \ {a} : w[d] = Slice(0, Extent, 1)}

InitPad ==
    /\ \E sd \in Axes :
         pattern = [core_dirs |-> SortedSeq(Axes \ {sd}), slice_dirs |-> <<sd>>,
                    fix_dirs |-> <<>>, fix_vals |-> <<>>]
    /\ preview = PreviewOf([d \in Axes |->
                    [start |-> 0, stop |-> Extent, step |-> 1, chunk |-> 1]])
    /\ max_frames \in 1 .. MaxFrames
    /\ processes = 1
    /\ proc_out = [p \in 0 .. processes - 1 |-> Unset]
    /\ \E cfg \in PadConfigs : \E fd \in BOOLEAN :
         pData = [padding |-> cfg, pad_dict |-> NoPadding,
                  end_pad |-> FALSE, fixed_dims |-> fd]
    /\ orig_shape = [d \in Axes |-> Extent]
    /\ ret = NoCall

\* the block of the last padded read still at hand, NoCall when there is none
LastPadded ==
    IF ret.op = "padded" THEN ret
    ELSE IF ret.op \in {"unpadded", "correct_pad"} THEN ret.padded
    ELSE NoCall

CallGetPaddedSliceData(w, padEmptyRaises) ==
    /\ LastPadded.op = "none" \/ w \in NextWindows
    /\ RangeLen(w[pattern.slice_dirs[1]].start, w[pattern.slice_dirs[1]].stop,
                w[pattern.slice_dirs[1]].step) <= max_frames
    /\ pData' = GetPaddedSliceData(pData, pattern, max_frames, orig_shape, w,
                                   padEmptyRaises).pd
    /\ ret' = [op |-> "padded"]
                @@ GetPaddedSliceData(pData, pattern, max_frames, orig_shape,
                                      w, padEmptyRaises).res
    /\ UNCHANGED <<pattern, preview, max_frames, processes, proc_out,
                   orig_shape>>

\* the crop of the block the last padded read returned, for the same window
CallGetUnpaddedSliceData ==
    /\ ret.op \in {"padded", "correct_pad"}
    /\ LastPadded.op = "padded"
    /\ LastPadded.err = "none"
    /\ pData' = GetUnpaddedSliceData(pData, pattern, max_frames,
                                     LastPadded.window, LastPadded.val).pd
    /\ ret' = [op |-> "unpadded", padded |-> LastPadded]
                @@ GetUnpaddedSliceData(pData, pattern, max_frames,
                                        LastPadded.window, LastPadded.val).res
    /\ UNCHANGED <<pattern, preview, max_frames, processes, proc_out,
                   orig_shape>>

\* a direct call of the public correct_pad(pData), at any point
CallCorrectPad ==
    /\ pData' = CorrectPad(pData)
    /\ ret' = [op |-> "correct_pad", err |-> "none", padded |-> LastPadded]
    /\ UNCHANGED <<pattern, preview, max_frames, processes, proc_out,
                   orig_shape>>

NextPad ==
    \/ CallGetSliceListPerProcess(0)
    \/ \E w \in Windows : \E padEmptyRaises \in BOOLEAN :
          CallGetPaddedSliceData(w, padEmptyRaises)
    \/ CallGetUnpaddedSliceData
    \/ CallCorrectPad

SpecPad == InitPad /\ [][NextPad]_vars

----------------------------------------------------------------------------
\* properties

Grouped == GetGroupedSliceList(pattern, preview, max_frames)

Ranks == 0 .. processes - 1

AllRanksReturned == \A p \in Ranks : proc_out[p].err = "none"

\* C1: the shares of the ranks 0..P-1 are disjoint contiguous runs of the
\* grouped batch sequence (each rank's list is the batches at its frame
\* indices, the frame indices of the ranks in rank order are 0..B-1) and put
\* together in rank order they are the batch sequence; a rank returns without
\* error whenever the grouping does, also when its share is empty.
C1_SharesPartitionBatches ==
    LET g == Grouped
    IN  /\ \A p \in Ranks :
              proc_out[p].err # "unset" =>
                 /\ proc_out[p].err = g.err
                 /\ proc_out[p].err = "none" =>
                       proc_out[p].val =
                          [k \in 1 .. Len(proc_out[p].frames) |->
                              g.val[proc_out[p].frames[k] + 1]]
        /\ AllRanksReturned =>
              /\ Flatten([p \in 1 .. processes |-> proc_out[p - 1].frames])
                    = [k \in 1 .. Len(g.val) |-> k - 1]
              /\ Flatten([p \in 1 .. processes |-> proc_out[p - 1].val])
                    = g.val

\* more ranks than batches: the last rank's share is empty
C1_Witness ==
    /\ processes = 3
    /\ AllRanksReturned
    /\ Len(Grouped.val) = 2
    /\ proc_out[0].val # <<>>
    /\ proc_out[2].val = <<>>

PadOps == {"padded", "unpadded"}

\* the pad amounts a padding value stands for
EffectivePads(p) ==
    IF p.kind = "Padding" THEN p.dirs
    ELSE IF p.kind = "dict" THEN ApplyEntries(NewPadding, p.entries).dirs
    ELSE NewPadding.dirs

\* C2: with fixed_dims set, every padded read and every crop leaves the plugin
\* data holding the pad amounts it held before the call, also when the call
\* installed a temporary 'after' pad for a short batch.
C2_PaddingRestored ==
    [][(ret'.op \in PadOps /\ pData.fixed_dims)
          => EffectivePads(pData'.padding) = EffectivePads(pData.padding)]_vars

\* a short batch was read with a temporary pad and the configured padding
\* is back in place
C2_Witness ==
    /\ ret.op = "padded"
    /\ ret.err = "none"
    /\ pData.fixed_dims
    /\ ret.diff > 0
    /\ pData.padding.kind = "Padding"
    /\ pData.padding = ApplyEntries(NewPadding, pData.pad_dict.entries)
    /\ \E d \in Axes : pData.padding.dirs[d].before > 0
    /\ ret.used # pData.padding.dirs

\* C3 (as claimed): whenever the padded read clipped nothing, cropping its
\* block gives the data of the original window, for every step >= 1 (stated
\* for the configured pads alone, fixed_dims not set).
C3_RoundTrip ==
    (/\ ret.op = "unpadded"
     /\ ret.err = "none"
     /\ ~pData.fixed_dims
     /\ ret.padded.pads = NoPads)
       => ret.val = [d \in Axes |-> PyRead(ret.window[d], orig_shape[d])]

Padded == ret.op = "padded" /\ "keys" \in DOMAIN ret

\* C4 (amended): the pad applied on a side of a padded axis is the amount
\* clipping removed on that side (0 when nothing is clipped), and the block
\* starts with that many copies of the first position read; a window that
\* starts at 0 with before=3 gets a 'before' pad of 3.
C4_PadIsClippedAmount ==
    Padded =>
       \A d \in ret.keys :
          /\ ret.pads[d][1] = Max(0, ret.used[d].before - ret.window[d].start)
          /\ ret.pads[d][2] =
                Max(0, ret.window[d].stop + ret.used[d].after - orig_shape[d])
          /\ (ret.window[d].start = 0 /\ ret.used[d].before = 3)
                => ret.pads[d][1] = 3
          /\ (ret.err = "none" /\ ret.val[d] # <<>>) =>
                /\ Len(ret.val[d])
                     = Len(PyRead(ret.slices[d], orig_shape[d]))
                         + ret.pads[d][1] + ret.pads[d][2]
                /\ \A k \in 1 .. ret.pads[d][1] + 1 :
                      ret.val[d][k] = ret.slices[d].start

\* C4 (as claimed): the pad applied on a side is the requested amount minus
\* the amount removed by clipping; a window that starts at 0 with before=3
\* gets a 'before' pad of 0.
C4_PadIsRequestedMinusClipped ==
    Padded =>
       \A d \in ret.keys :
          /\ ret.pads[d][1] = ret.used[d].before
                - Max(0, ret.used[d].before - ret.window[d].start)
          /\ ret.pads[d][2] = ret.used[d].after
                - Max(0, ret.window[d].stop + ret.used[d].after - orig_shape[d])
          /\ (ret.window[d].start = 0 /\ ret.used[d].before = 3)
                => ret.pads[d][1] = 0

\* a window that starts at 0 was read with before=3
C4_Witness ==
    /\ Padded
    /\ ret.err = "none"
    /\ \E d \in ret.keys :
          /\ ret.window[d].start = 0
          /\ ret.used[d].before = 3
          /\ ret.pads[d][1] = 3
          /\ Len(ret.val[d]) >= 4
          /\ \A k \in 1 .. 4 : ret.val[d][k] = 0

LengthOf(i) == Len(GetSliceDirIndex(pattern, preview, pattern.slice_dirs[i]).val)

ValuesOf(i) == GetSliceDirIndex(pattern, preview, pattern.slice_dirs[i]).val

CLR == ChunkLengthRepeat(pattern.slice_dirs, GetShape(preview))

SingleOk == ret.op = "single" /\ ret.err = "none"

\* C5 (amended): the flat window sequence is enumerated with the first slice
\* axis as the innermost, fastest-varying loop: each value of slice axis i is
\* repeated chunk[i] (product of the lengths of the earlier slice axes) times
\* in a row and that block is tiled repeat[i] (product of the lengths of the
\* later slice axes) times.
C5_FirstSliceAxisFastest ==
    (SingleOk /\ Len(pattern.slice_dirs) >= 1 /\ ret.val # <<>>) =>
       /\ Len(ret.val) = Prod([i \in 1 .. Len(pattern.slice_dirs) |-> LengthOf(i)])
       /\ \A i \in 1 .. Len(pattern.slice_dirs) :
             /\ Len(ret.val) = CLR.chunk[i] * LengthOf(i) * CLR.repeat[i]
             /\ \A j \in 1 .. Len(ret.val) :
                   ret.val[j][pattern.slice_dirs[i]].start
                      = ValuesOf(i)[(((j - 1) \div CLR.chunk[i]) % LengthOf(i)) + 1]

\* C5 (as claimed): the first slice axis is the outermost loop: each value of
\* slice axis i is repeated repeat[i] times in a row, tiled chunk[i] times.
C5_FirstSliceAxisSlowest ==
    (SingleOk /\ Len(pattern.slice_dirs) >= 2 /\ ret.val # <<>>) =>
       \A i \in 1 .. Len(pattern.slice_dirs) :
          \A j \in 1 .. Len(ret.val) :
             ret.val[j][pattern.slice_dirs[i]].start
                = ValuesOf(i)[(((j - 1) \div CLR.repeat[i]) % LengthOf(i)) + 1]

\* two slice axes with two or more values each were enumerated
C5_Witness ==
    /\ SingleOk
    /\ Len(pattern.slice_dirs) = 2
    /\ LengthOf(1) >= 2
    /\ LengthOf(2) >= 2
    /\ ret.val[1][pattern.slice_dirs[1]] # ret.val[2][pattern.slice_dirs[1]]
    /\ ret.val[1][pattern.slice_dirs[2]] = ret.val[2][pattern.slice_dirs[2]]

\* the positions a selector selects
Selected(sl) == SeqToSet(Range(sl.start, sl.stop, sl.step))

\* the positions of the preview region on one axis
AxisRegion(d) ==
    IF d \in SeqToSet(pattern.fix_dirs)
    THEN {pattern.fix_vals[IndexOf(pattern.fix_dirs, d)]}
    ELSE Selected(Slice(preview.starts[d], preview.stops[d], preview.steps[d]))

Region == {p \in [Axes -> 0 .. MaxStop] : \A d \in Axes : p[d] \in AxisRegion(d)}

Covers(w, p) == \A d \in Axes : p[d] \in Selected(w[d])

\* C6 (as claimed): with chunk=1 on every axis and a pattern that has a slice
\* axis or a fixed axis, every position of the preview region is selected by
\* exactly one window and no window selects a position outside it.
C6_CoveredExactlyOnce ==
    (/\ SingleOk
     /\ \A d \in Axes : preview.chunks[d] = 1
     /\ Len(pattern.slice_dirs) + Len(pattern.fix_dirs) >= 1)
       => /\ \A p \in Region :
                Cardinality({j \in 1 .. Len(ret.val) : Covers(ret.val[j], p)}) = 1
          /\ \A j \in 1 .. Len(ret.val) :
                \A d \in Axes : Selected(ret.val[j][d]) \subseteq AxisRegion(d)

\* C7 (as claimed): every batch merges at most max_frames consecutive windows,
\* its selector on the first slice axis selects exactly their positions in
\* order and its other selectors are those of every window merged into it,
\* for every step and chunk.
C7_BatchSelectsItsWindows ==
    (ret.op = "grouped" /\ ret.err = "none") =>
       /\ Flatten(ret.subs) = SingleSliceList(pattern, preview).val
       /\ \A k \in 1 .. Len(ret.val) :
             LET sub == ret.subs[k]
                 gd == pattern.slice_dirs[1]
             IN  /\ Len(sub) <= max_frames
                 /\ Range(ret.val[k][gd].start, ret.val[k][gd].stop,
                          ret.val[k][gd].step)
                       = [i \in 1 .. Len(sub) |-> sub[i][gd].start]
                 /\ \A i \in 1 .. Len(sub) :
                       \A d \in Axes \ {gd} : sub[i][d] = ret.val[k][d]

MatrixCall == ret.op = "matrix"

StepPoints(dim) ==
    RangeLen(preview.starts[dim], preview.stops[dim], preview.steps[dim])

\* C8 (amended): the centred windows of a chunked axis fail exactly when some
\* position start + k*step + offset, offset in -floor(chunk/2) ..
\* chunk-floor(chunk/2)-1, is negative, that is when the axis has a step point
\* and start < floor(chunk/2); chunk=3 at start=1 selects 0,1,2 and does not
\* fail, chunk=3 at start=0 fails.
C8_FailsIffPositionNegative ==
    MatrixCall =>
       LET dim == ret.dim
           chunk == preview.chunks[dim]
       IN  /\ (ret.err # "none") <=>
                 \E k \in 0 .. StepPoints(dim) - 1 :
                    \E off \in (0 - chunk \div 2) .. (chunk - chunk \div 2 - 1) :
                       preview.starts[dim] + k * preview.steps[dim] + off < 0
           /\ (ret.err # "none") <=>
                 (StepPoints(dim) > 0 /\ preview.starts[dim] < chunk \div 2)
           /\ (chunk = 3 /\ StepPoints(dim) > 0) =>
                 /\ preview.starts[dim] = 1 =>
                       /\ ret.err = "none"
                       /\ \A c \in 0 .. 2 : ret.val[c][1] = c
                 /\ preview.starts[dim] = 0 => ret.err = "NegativeSlice"

\* C8 (as claimed): chunk=3 on an axis whose first step point is 1 raises.
C8_Chunk3AtStart1Raises ==
    (/\ MatrixCall
     /\ preview.chunks[ret.dim] = 3
     /\ preview.starts[ret.dim] = 1
     /\ StepPoints(ret.dim) > 0)
       => ret.err # "none"

\* chunk=3 was requested at first step point 1
C8_Witness ==
    /\ MatrixCall
    /\ preview.chunks[ret.dim] = 3
    /\ preview.starts[ret.dim] = 1
    /\ StepPoints(ret.dim) > 0
    /\ ret.err = "none"

\* C9 (as claimed): the padding computation never returns a read range whose
\* lower bound is above its upper bound.
C9_NoReversedRange ==
    Padded => \A d \in ret.keys : ret.slices[d].start <= ret.slices[d].stop

\* C10 (as claimed): with fixed_dims set, the block read for a batch of at
\* least one position that lies inside the data has max_frames positions on
\* the first slice axis (no padding being configured on that axis), for every
\* step.
C10_BlockHasMaxFrames ==
    LET sd == pattern.slice_dirs[1]
    IN  (/\ ret.op = "padded"
         /\ ret.err = "none"
         /\ pData.fixed_dims
         /\ ret.window[sd].start < ret.window[sd].stop
         /\ ret.window[sd].stop <= orig_shape[sd]
         /\ EffectivePads(pData.padding)[sd] = [before |-> 0, after |-> 0])
           => Len(ret.val[sd]) = max_frames

====
